---------------------------- MODULE Spec2Model ----------------------------
(***************************************************************************)
(* egui_typed_input: ValText<T, E>, a text buffer that validates every     *)
(* insertion with an input validator and keeps the parse of its text in a  *)
(* cache (parsed_val).                                                     *)
(*                                                                         *)
(* A Rust String is modelled as the sequence of its UTF-8 bytes.  An ASCII *)
(* byte is written as the one-character string of its character; the two   *)
(* bytes of U+00E9 are written "C3" and "A9".  len() is the length of the  *)
(* sequence, as_bytes()[k] is element k+1, and character indices are       *)
(* converted to byte indices the way egui's TextBuffer for String does.    *)
(***************************************************************************)
EXTENDS Integers, Sequences, FiniteSets, TLC

VARIABLES
    policy,      \* which constructor built the buffer (fixes the two closures)
    text,        \* ValText::text
    parsed_val,  \* ValText::parsed_val
    op,          \* the last call made by the host: "none", "insert", "delete",
                 \* "set_val"
    arg_text,    \* insert_text: the candidate `text`
    arg_i,       \* insert_text: char_index; delete_char_range: char_range.start
    arg_j,       \* delete_char_range: char_range.end
    arg_val,     \* set_val: val
    outcome,     \* what the validator did in the last insert_text
    ret,         \* the value insert_text returned
    prev_text,   \* text before the last call
    prev_val,    \* parsed_val before the last call
    panicked     \* the last call unwound instead of returning

vars == <<policy, text, parsed_val, op, arg_text, arg_i, arg_j, arg_val,
          outcome, ret, prev_text, prev_val, panicked>>

---------------------------------------------------------------------------
(* Bounds of the model *)

\* the host never lets the text of a buffer grow beyond this many bytes
MaxTextLen == 3
\* the same for the float percentage buffers
MaxPctLen == 5
\* the same for the hex colour buffer
MaxHexLen == 7
\* the host passes character indices up to this much beyond the end of the text
IndexSlack == 1

---------------------------------------------------------------------------
(* Bytes and characters *)

AsciiDigits == {"0", "1", "2", "3", "4", "5", "6", "7", "8", "9"}

\* char::is_ascii_digit
is_ascii_digit(c) == c \in AsciiDigits

\* char::is_ascii_hexdigit, on the bytes the model uses
is_ascii_hexdigit(c) == c \in AsciiDigits \cup {"a", "F"}

\* a UTF-8 continuation byte (10xxxxxx)
IsContinuation(b) == b = "A9"

DigitVal(c) ==
    CASE c = "0" -> 0 [] c = "1" -> 1 [] c = "2" -> 2 [] c = "3" -> 3
      [] c = "4" -> 4 [] c = "5" -> 5 [] c = "6" -> 6 [] c = "7" -> 7
      [] c = "8" -> 8 [] c = "9" -> 9 [] c = "a" -> 10 [] c = "F" -> 15
      [] OTHER -> -1

\* str::chars().count()
CharCount(s) == Cardinality({k \in 1..Len(s) : ~IsContinuation(s[k])})

\* str::contains(char) for an ASCII char
Contains(s, c) == \E k \in 1..Len(s) : s[k] = c

\* str::starts_with for an ASCII prefix p
StartsWith(s, p) == Len(s) >= Len(p) /\ SubSeq(s, 1, Len(p)) = p

\* s.chars().all(|c| c.is_ascii_digit()): no byte of a non-ASCII character is
\* an ASCII digit, so it holds iff every byte is one
all_ascii_digit(s) == \A k \in 1..Len(s) : is_ascii_digit(s[k])

\* s.chars().all(|c| c.is_ascii_hexdigit())
all_ascii_hexdigit(s) == \A k \in 1..Len(s) : is_ascii_hexdigit(s[k])

\* usize::saturating_sub
saturating_sub(a, b) == IF a >= b THEN a - b ELSE 0

\* egui: byte_index_from_char_index(s, char_index): the byte offset of the
\* char_index-th character, s.len() when there are not that many
byte_index_from_char_index(s, ci) ==
    IF ci >= CharCount(s) THEN Len(s)
    ELSE (CHOOSE k \in 1..Len(s) :
            /\ ~IsContinuation(s[k])
            /\ Cardinality({j \in 1..(k - 1) : ~IsContinuation(s[j])}) = ci) - 1

\* String::insert_str at a byte offset
insert_str(s, at, t) == SubSeq(s, 1, at) \o t \o SubSeq(s, at + 1, Len(s))

\* String::drain(a..b) of byte offsets
drain(s, a, b) == SubSeq(s, 1, a) \o SubSeq(s, b + 1, Len(s))

\* <String as egui::TextBuffer>::insert_text: the new string
String_insert_text(s, t, char_index) ==
    insert_str(s, byte_index_from_char_index(s, char_index), t)

\* <String as egui::TextBuffer>::delete_char_range: the new string
String_delete_char_range(s, from, to) ==
    drain(s, byte_index_from_char_index(s, from),
             byte_index_from_char_index(s, to))


---------------------------------------------------------------------------
(* Parse results: Option<Result<T, E>> *)

\* val is a tuple of integers: <<n>> for an integer, <<class, negative,
\* mantissa, scale>> for a float, <<r, g, b, a>> for a Color32, <<>> or <<n>>
\* for an Option<i32>; err is the error and the error it wraps, outermost first
None == [tag |-> "None", val |-> <<>>, err |-> <<>>]
Ok(v) == [tag |-> "Ok", val |-> v, err |-> <<>>]
Err(e) == [tag |-> "Err", val |-> <<>>, err |-> e]

---------------------------------------------------------------------------
(* core::str::parse for the integer and float types *)

RECURSIVE RadixVal(_, _)
\* the number a string of digits denotes in the given radix
RadixVal(ds, radix) ==
    IF ds = <<>> THEN 0
    ELSE RadixVal(SubSeq(ds, 1, Len(ds) - 1), radix) * radix + DigitVal(ds[Len(ds)])

\* <iN/uN>::from_str_radix: Ok(<<n>>), or the IntErrorKind.  A text of the
\* model has fewer than eight digits, so PosOverflow and NegOverflow (which
\* need ten decimal digits in 32 bits) cannot arise and are left out.
from_str_radix(s, radix, is_signed_ty) ==
    IF s = <<>> THEN Err(<<"Empty">>)
    ELSE IF s[1] \in {"+", "-"} /\ Len(s) = 1 THEN Err(<<"InvalidDigit">>)
    ELSE LET is_positive == ~(s[1] = "-" /\ is_signed_ty)
             digits == IF s[1] = "+" \/ (s[1] = "-" /\ is_signed_ty)
                       THEN Tail(s) ELSE s
             n == RadixVal(digits, radix)
         IN  IF \E k \in 1..Len(digits) :
                    DigitVal(digits[k]) < 0 \/ DigitVal(digits[k]) >= radix
             THEN Err(<<"InvalidDigit">>)
             ELSE Ok(<<IF is_positive THEN n ELSE -n>>)

\* str::parse::<i32>()
parse_i32(s) == from_str_radix(s, 10, TRUE)

\* str::parse::<u32>()
parse_u32(s) == from_str_radix(s, 10, FALSE)

RECURSIVE StripTrailingZeros(_)
StripTrailingZeros(ds) ==
    IF ds # <<>> /\ ds[Len(ds)] = "0"
    THEN StripTrailingZeros(SubSeq(ds, 1, Len(ds) - 1))
    ELSE ds

\* A float is <<class, negative, mantissa, scale>>: class 0 is the finite
\* number (-1)^negative * mantissa / 10^scale with the least such scale, class
\* 1 is NaN.  The texts of the model have at most six significant digits, which
\* f32 and f64 both tell apart and order as the decimals are ordered.
Finite(neg, mant, scale) == <<0, IF neg THEN 1 ELSE 0, mant, scale>>
NaN(neg) == <<1, IF neg THEN 1 ELSE 0, 0, 0>>

RECURSIVE Pow10(_)
Pow10(k) == IF k = 0 THEN 1 ELSE 10 * Pow10(k - 1)

\* f > 100.0 (false of NaN)
gt_100(f) == f[1] = 0 /\ f[2] = 0 /\ f[3] > 100 * Pow10(f[4])
\* f < 0.0 (false of NaN and of -0.0)
lt_0(f) == f[1] = 0 /\ f[2] = 1 /\ f[3] > 0
\* 0.0 <= f /\ f <= 100.0 (false of NaN)
in_0_100(f) == f[1] = 0 /\ ~gt_100(f) /\ ~lt_0(f)

\* str::parse::<f32/f64>() (core::num::dec2flt) on the bytes of the model:
\* Sign? (Number | "nan"), Number = Digit* ('.' Digit*)? with a digit in it.
\* The model's bytes hold no exponent mark and cannot spell "inf".
parse_float(s) ==
    IF s = <<>> THEN Err(<<"Empty">>)
    ELSE LET negative == s[1] = "-"
             r == IF s[1] \in {"+", "-"} THEN Tail(s) ELSE s
             dots == {k \in 1..Len(r) : r[k] = "."}
             dot == IF dots = {} THEN Len(r) + 1
                    ELSE CHOOSE k \in dots : \A j \in dots : k <= j
             int_part == SubSeq(r, 1, dot - 1)
             frac_part == StripTrailingZeros(SubSeq(r, dot + 1, Len(r)))
             is_number ==
                 /\ Cardinality(dots) <= 1
                 /\ \A k \in 1..Len(r) : is_ascii_digit(r[k]) \/ r[k] = "."
                 /\ \E k \in 1..Len(r) : is_ascii_digit(r[k])
         IN  IF r = <<>> THEN Err(<<"Invalid">>)
             ELSE IF is_number
             THEN Ok(Finite(negative, RadixVal(int_part \o frac_part, 10),
                            Len(frac_part)))
             ELSE IF r = <<"n", "a", "n">> THEN Ok(NaN(negative))
             ELSE Err(<<"Invalid">>)

\* Color32::from_rgba_unmultiplied for alpha 0 and 255, the only alphas the
\* hex digits of the model (0 and F) can spell
from_rgba_unmultiplied(r, g, b, a) ==
    IF a = 0 THEN <<0, 0, 0, 0>> ELSE <<r, g, b, a>>

\* ecolor: Color32::from_hex = HexColor::from_str(..).color().  The digits
\* are parsed by u16/u32::from_str_radix(h, 16), which takes a leading '+';
\* nib(k)/byte(k) are the k-th nibble/byte of that number from the right.
from_hex(s) ==
    IF ~StartsWith(s, <<"#">>) THEN Err(<<"MissingHash">>)
    ELSE LET h == Tail(s)
             n == from_str_radix(h, 16, FALSE)
             d == IF h[1] = "+" THEN <<"0">> \o Tail(h) ELSE h
             nib(k) == DigitVal(d[Len(d) - k]) * 17
             byte(k) == DigitVal(d[Len(d) - 2 * k - 1]) * 16
                        + DigitVal(d[Len(d) - 2 * k])
         IN  IF Len(h) \notin {3, 4, 6, 8} THEN Err(<<"InvalidLength">>)
             ELSE IF n.tag = "Err" THEN Err(<<"InvalidInt">> \o n.err)
             ELSE IF Len(h) = 3 THEN Ok(<<nib(2), nib(1), nib(0), 255>>)
             ELSE IF Len(h) = 4
             THEN Ok(from_rgba_unmultiplied(nib(3), nib(2), nib(1), nib(0)))
             ELSE IF Len(h) = 6 THEN Ok(<<byte(2), byte(1), byte(0), 255>>)
             ELSE Ok(from_rgba_unmultiplied(byte(3), byte(2), byte(1), byte(0)))

---------------------------------------------------------------------------
(* The constructors: each fixes value_parser and input_validator *)

Policies ==
    {"with_parser", "with_parser_fixed_charset", "option_parse", "number",
     "number_int", "number_uint", "percentage_f64", "percentage_f32",
     "percentage_uint", "color_hex"}

\* the charset the host gives with_parser_fixed_charset
charset == {"0", "1"}

\* with_parser / Default: input_validator |_, _, _| true
with_parser_input_validator(current_text, s, i) == TRUE

\* a fixed charset that asks for some character of the set, not for all
fixed_charset_input_validator_any(current_text, s, i) ==
    \E k \in 1..Len(s) : s[k] \in charset

\* with_parser_fixed_charset: |_, s, _| !s.chars().any(|c| !charset.contains(&c))
fixed_charset_input_validator(current_text, s, i) ==
    ~\E k \in 1..Len(s) : s[k] \notin charset

\* color_hex
color_hex_input_validator(current_text, s, i) ==
    IF i = 0 THEN StartsWith(s, <<"#">>)
    ELSE all_ascii_hexdigit(s)

\* number
number_input_validator(current_text, s, i) ==
    LET current_has_no_dot == ~Contains(current_text, ".")
        num_or_dot(c) == (IF current_has_no_dot THEN c = "." ELSE FALSE)
                         \/ is_ascii_digit(c)
    IN  (IF i = 0 THEN StartsWith(s, <<"+">>) \/ StartsWith(s, <<"-">>)
         ELSE FALSE)
        \/ (\A k \in 1..Len(s) : num_or_dot(s[k]))

\* number_int with the sign taken at every index
number_int_input_validator_any_index(current_text, s, i) ==
    StartsWith(s, <<"+">>) \/ StartsWith(s, <<"-">>) \/ all_ascii_digit(s)

\* number_int
number_int_input_validator(current_text, s, i) ==
    (IF i = 0 THEN StartsWith(s, <<"+">>) \/ StartsWith(s, <<"-">>)
     ELSE FALSE)
    \/ all_ascii_digit(s)

\* number_uint
number_uint_input_validator(current_text, s, i) ==
    (IF i = 0 THEN StartsWith(s, <<"+">>) ELSE FALSE)
    \/ all_ascii_digit(s)

\* current_text.split_once('.').map(|(pre_dot, _)| pre_dot.len())
\*     .unwrap_or(current_text.len())
current_text_no_des_len(current_text) ==
    IF Contains(current_text, ".")
    THEN (CHOOSE k \in 1..Len(current_text) :
            current_text[k] = "." /\ \A j \in 1..(k - 1) : current_text[j] # ".") - 1
    ELSE Len(current_text)

\* percentage (f64 and f32): the validator reaches
\* current_text.as_bytes()[i.saturating_sub(1)] with an index that is not
\* below current_text.len(), which panics
percentage_index_out_of_bounds(current_text, s, i) ==
    /\ ~(current_text_no_des_len(current_text) + Len(s) > 3
         /\ ~Contains(current_text, "."))
    /\ current_text # <<>>
    /\ saturating_sub(i, 1) >= Len(current_text)

\* percentage (f64 and f32): the value the validator returns when it returns
percentage_input_validator(current_text, s, i) ==
    LET no_des_len == current_text_no_des_len(current_text)
        current_has_no_dot == ~Contains(current_text, ".")
        num_or_dot(c) == (IF current_has_no_dot THEN c = "." ELSE FALSE)
                         \/ is_ascii_digit(c)
        all_num_or_dot == (\A k \in 1..Len(s) : num_or_dot(s[k]))
    IN  IF no_des_len + Len(s) > 3 /\ ~Contains(current_text, ".") THEN FALSE
        ELSE IF /\ current_text # <<>>
                /\ current_text[saturating_sub(i, 1) + 1] = "."
                /\ all_num_or_dot
        THEN TRUE
        ELSE IF no_des_len = 2
        THEN IF StartsWith(s, <<".">>) /\ all_num_or_dot THEN TRUE
             ELSE IF s = <<"0">>
             THEN StartsWith(current_text, <<"1", "0">>)
                  /\ ~Contains(current_text, ".")
             ELSE FALSE
        ELSE (IF i = 0 THEN StartsWith(s, <<"+">>) ELSE FALSE)
             \/ all_num_or_dot

\* percentage_uint with the length cap off by one (>= for >)
percentage_uint_input_validator_capped_early(current_text, s, i) ==
    IF Len(current_text) + Len(s) >= 3 THEN FALSE
    ELSE IF Len(current_text) = 2
    THEN IF s = <<"0">> THEN StartsWith(current_text, <<"1", "0">>)
         ELSE FALSE
    ELSE (IF i = 0 THEN StartsWith(s, <<"+">>) ELSE FALSE)
         \/ all_ascii_digit(s)

\* percentage_uint
percentage_uint_input_validator(current_text, s, i) ==
    IF Len(current_text) + Len(s) > 3 THEN FALSE
    ELSE IF Len(current_text) = 2
    THEN IF s = <<"0">> THEN StartsWith(current_text, <<"1", "0">>)
         ELSE FALSE
    ELSE (IF i = 0 THEN StartsWith(s, <<"+">>) ELSE FALSE)
         \/ all_ascii_digit(s)

\* (self.input_validator)(&self.text, text, char_index) of the buffer built by p
input_validator(p, current_text, s, i) ==
    CASE p = "with_parser" -> with_parser_input_validator(current_text, s, i)
      [] p = "option_parse" -> with_parser_input_validator(current_text, s, i)
      [] p = "with_parser_fixed_charset" ->
             fixed_charset_input_validator(current_text, s, i)
      [] p = "number" -> number_input_validator(current_text, s, i)
      [] p = "number_int" -> number_int_input_validator(current_text, s, i)
      [] p = "number_uint" -> number_uint_input_validator(current_text, s, i)
      [] p \in {"percentage_f64", "percentage_f32"} ->
             percentage_input_validator(current_text, s, i)
      [] p = "percentage_uint" ->
             percentage_uint_input_validator(current_text, s, i)
      [] p = "color_hex" -> color_hex_input_validator(current_text, s, i)

\* the validator call of the buffer built by p unwinds
input_validator_panics(p, current_text, s, i) ==
    /\ p \in {"percentage_f64", "percentage_f32"}
    /\ percentage_index_out_of_bounds(current_text, s, i)

\* option_parse: value_parser
option_parse_value_parser(str) ==
    IF str = <<>> THEN Ok(<<>>) ELSE parse_i32(str)

\* percentage (f64 and f32): value_parser
percentage_value_parser(str) ==
    LET num == parse_float(str)
    IN  IF num.tag = "Ok"
        THEN IF gt_100(num.val) THEN Err(<<"OutOfRangeHigh">>)
             ELSE IF lt_0(num.val) THEN Err(<<"Neg">>)
             ELSE Ok(num.val)
        ELSE Err(<<"ParseFloat">> \o num.err)

\* percentage_uint: value_parser
percentage_uint_value_parser(str) ==
    LET num == parse_u32(str)
    IN  IF num.tag = "Ok"
        THEN IF num.val[1] > 100 THEN Err(<<"OutOfRangeHigh">>)
             ELSE Ok(num.val)
        ELSE Err(<<"ParseInt">> \o num.err)

\* (self.value_parser)(&self.text) of the buffer built by p; the host's T is
\* i32 for with_parser, u32 for with_parser_fixed_charset and number_uint, f32
\* for number, i32 for number_int (examples/number.rs)
value_parser(p, str) ==
    CASE p = "with_parser" -> parse_i32(str)
      [] p = "with_parser_fixed_charset" -> parse_u32(str)
      [] p = "option_parse" -> option_parse_value_parser(str)
      [] p = "number" -> parse_float(str)
      [] p = "number_int" -> parse_i32(str)
      [] p = "number_uint" -> parse_u32(str)
      [] p \in {"percentage_f64", "percentage_f32"} ->
             percentage_value_parser(str)
      [] p = "percentage_uint" -> percentage_uint_value_parser(str)
      [] p = "color_hex" -> from_hex(str)

RECURSIVE to_string(_)
\* the decimal digits of a natural number
to_string(n) ==
    IF n < 10 THEN <<CHOOSE c \in AsciiDigits : DigitVal(c) = n>>
    ELSE to_string(n \div 10) \o to_string(n % 10)

\* <i32/u32 as Display>::to_string of <<n>>
int_to_string(v) ==
    IF v[1] < 0 THEN <<"-">> \o to_string(-v[1]) ELSE to_string(v[1])

RECURSIVE ZeroPadded(_, _)
\* ds with zeros in front up to the length n
ZeroPadded(ds, n) == IF Len(ds) >= n THEN ds ELSE ZeroPadded(<<"0">> \o ds, n)

\* <f32/f64 as Display>::to_string of a finite float: the shortest decimal
\* that reads back as it, without exponent ("150", "1.5", "-0.5")
float_to_string(f) ==
    LET ds == ZeroPadded(to_string(f[3]), f[4] + 1)
        int_part == SubSeq(ds, 1, Len(ds) - f[4])
        frac_part == SubSeq(ds, Len(ds) - f[4] + 1, Len(ds))
    IN  (IF f[2] = 1 THEN <<"-">> ELSE <<>>)
        \o int_part
        \o (IF f[4] = 0 THEN <<>> ELSE <<".">> \o frac_part)

FloatPolicies == {"number", "percentage_f64", "percentage_f32"}

\* val.to_string() for the T of the buffer built by p
val_to_string(p, v) ==
    IF p \in FloatPolicies THEN float_to_string(v) ELSE int_to_string(v)

\* parsed_val as the constructor leaves it
\* constructors that all leave the cache empty
initial_parsed_val_unseeded(p) == None

\* parsed_val as the constructor leaves it (color_hex seeds the error of the
\* empty text)
initial_parsed_val(p) ==
    IF p = "color_hex" THEN Err(<<"MissingHash">>) ELSE None

\* ValText::get_val
get_val == parsed_val

\* ValText::is_valid
is_valid == parsed_val.tag = "Ok"

\* TextBuffer::as_str
as_str == text

---------------------------------------------------------------------------
(* The host: the strings it types or pastes, and where *)

\* U+00E9, two bytes
EAcute == <<"C3", "A9">>

Singles(cs) == {<<c>> : c \in cs}

\* the candidates the host offers a buffer built by p
Candidates(p) ==
    CASE p = "with_parser" -> {<<>>, <<"1">>, <<"-">>, EAcute}
      [] p = "option_parse" -> {<<>>, <<"1">>, <<"x">>}
      [] p = "with_parser_fixed_charset" ->
             {<<>>, <<"0">>, <<"1">>, <<"2">>, <<"1", "2">>}
      [] p = "number" ->
             {<<"1">>, <<"5">>, <<".">>, <<"-">>, <<".", ".">>}
      [] p = "number_int" ->
             {<<"3">>, <<".">>, <<"-">>, <<"+">> \o EAcute}
      [] p = "number_uint" ->
             {<<"3">>, <<"-">>, <<"+">>, <<"+", "x">>}
      [] p = "percentage_f64" ->
             {<<"1">>, <<".">>, <<"+", "n", "a", "n">>}
      [] p = "percentage_f32" -> {<<"0">>, <<"1">>, <<".">>}
      [] p = "percentage_uint" ->
             Singles(AsciiDigits) \cup {<<>>, <<"+">>, <<"9", "9">>}
             \cup {<<"+">> \o EAcute}
      [] p = "color_hex" ->
             {<<"#">>, <<"g">>, <<"F", "F", "0", "0", "0", "0">>}

\* the longest text the host lets a buffer built by p reach
MaxLenOf(p) ==
    CASE p \in {"percentage_f64", "percentage_f32"} -> MaxPctLen
      [] p = "color_hex" -> MaxHexLen
      [] OTHER -> MaxTextLen

\* the values the host assigns to a buffer built by p with set_val (T:
\* Display; Color32 and Option<T> have no Display, so no set_val)
SetVals(p) ==
    CASE p = "with_parser" -> {<<-1>>}
      [] p = "with_parser_fixed_charset" -> {<<2>>}
      [] p = "number" -> {Finite(FALSE, 15, 1)}
      [] p = "number_int" -> {<<-3>>}
      [] p = "number_uint" -> {<<3>>}
      [] p = "percentage_f64" -> {Finite(FALSE, 150, 0)}
      [] p = "percentage_f32" -> {Finite(FALSE, 5, 1)}
      [] p = "percentage_uint" -> {<<7>>, <<150>>}
      [] OTHER -> {}

\* the character indices the host passes: up to the end of the text and
\* IndexSlack beyond it
Indices == 0..(CharCount(text) + IndexSlack)

\* the ends of the character ranges the host deletes
Ends == 0..CharCount(text)

---------------------------------------------------------------------------
(* The buffer *)

Init ==
    /\ policy \in Policies
    /\ text = <<>>
    /\ parsed_val = initial_parsed_val(policy)
    /\ op = "none"
    /\ arg_text = <<>>
    /\ arg_i = 0
    /\ arg_j = 0
    /\ arg_val = <<>>
    /\ outcome = "none"
    /\ ret = 0
    /\ prev_text = <<>>
    /\ prev_val = initial_parsed_val(policy)
    /\ panicked = FALSE

\* what the call leaves in the host's view: the call and the state before it
Called(name, s, i, j) ==
    /\ op' = name
    /\ arg_text' = s
    /\ arg_i' = i
    /\ arg_j' = j
    /\ arg_val' = <<>>
    /\ prev_text' = text
    /\ prev_val' = parsed_val
    /\ UNCHANGED policy

\* insert_text that keeps the old cache when it accepts
insert_text_stale(s, char_index) ==
    /\ ~panicked
    /\ Called("insert", s, char_index, 0)
    /\ IF input_validator_panics(policy, text, s, char_index)
       THEN /\ outcome' = "panic"
            /\ panicked' = TRUE
            /\ UNCHANGED <<text, parsed_val, ret>>
       ELSE IF input_validator(policy, text, s, char_index)
       THEN /\ Len(text) + Len(s) <= MaxLenOf(policy)
            /\ outcome' = "accept"
            /\ text' = String_insert_text(text, s, char_index)
            /\ parsed_val' = IF parsed_val = None
                             THEN value_parser(policy, text') ELSE parsed_val
            /\ ret' = CharCount(s)
            /\ UNCHANGED panicked
       ELSE /\ outcome' = "reject"
            /\ ret' = 0
            /\ UNCHANGED <<text, parsed_val, panicked>>

\* insert_text that parses the text again when it rejects
insert_text_reparse(s, char_index) ==
    /\ ~panicked
    /\ Called("insert", s, char_index, 0)
    /\ IF input_validator_panics(policy, text, s, char_index)
       THEN /\ outcome' = "panic"
            /\ panicked' = TRUE
            /\ UNCHANGED <<text, parsed_val, ret>>
       ELSE IF input_validator(policy, text, s, char_index)
       THEN /\ Len(text) + Len(s) <= MaxLenOf(policy)
            /\ outcome' = "accept"
            /\ text' = String_insert_text(text, s, char_index)
            /\ parsed_val' = value_parser(policy, text')
            /\ ret' = CharCount(s)
            /\ UNCHANGED panicked
       ELSE /\ outcome' = "reject"
            /\ ret' = 0
            /\ parsed_val' = value_parser(policy, text)
            /\ UNCHANGED <<text, panicked>>

\* insert_text that gives up after the first character of a longer candidate
insert_text_partial(s, char_index) ==
    /\ ~panicked
    /\ Called("insert", s, char_index, 0)
    /\ IF input_validator_panics(policy, text, s, char_index)
       THEN /\ outcome' = "panic"
            /\ panicked' = TRUE
            /\ UNCHANGED <<text, parsed_val, ret>>
       ELSE IF input_validator(policy, text, s, char_index)
       THEN /\ Len(text) + Len(s) <= MaxLenOf(policy)
            /\ outcome' = "accept"
            /\ text' = String_insert_text(
                           text,
                           SubSeq(s, 1, byte_index_from_char_index(s, 1)),
                           char_index)
            /\ parsed_val' = value_parser(policy, text')
            /\ ret' = CharCount(s)
            /\ UNCHANGED panicked
       ELSE /\ outcome' = "reject"
            /\ ret' = 0
            /\ UNCHANGED <<text, parsed_val, panicked>>

\* <ValText as TextBuffer>::insert_text(text, char_index)
insert_text(s, char_index) ==
    /\ ~panicked
    /\ Called("insert", s, char_index, 0)
    /\ IF input_validator_panics(policy, text, s, char_index)
       THEN /\ outcome' = "panic"
            /\ panicked' = TRUE
            /\ UNCHANGED <<text, parsed_val, ret>>
       ELSE IF input_validator(policy, text, s, char_index)
       THEN /\ Len(text) + Len(s) <= MaxLenOf(policy)
            /\ outcome' = "accept"
            /\ text' = String_insert_text(text, s, char_index)
            /\ parsed_val' = value_parser(policy, text')
            /\ ret' = CharCount(s)
            /\ UNCHANGED panicked
       ELSE /\ outcome' = "reject"
            /\ ret' = 0
            /\ UNCHANGED <<text, parsed_val, panicked>>

\* delete_char_range with a validator hook: the characters are removed only
\* if the validator would let the remaining text be typed into an empty buffer
delete_char_range_validated(from, to) ==
    /\ ~panicked
    /\ from <= to
    /\ Called("delete", <<>>, from, to)
    /\ LET after == String_delete_char_range(text, from, to)
       IN  text' = IF input_validator(policy, <<>>, after, 0)
                   THEN after ELSE text
    /\ parsed_val' = value_parser(policy, text')
    /\ outcome' = "none"
    /\ UNCHANGED <<ret, panicked>>

\* delete_char_range that forgets to parse the remaining text
delete_char_range_stale(from, to) ==
    /\ ~panicked
    /\ from <= to
    /\ Called("delete", <<>>, from, to)
    /\ text' = String_delete_char_range(text, from, to)
    /\ parsed_val' = parsed_val
    /\ outcome' = "none"
    /\ UNCHANGED <<ret, panicked>>

\* <ValText as TextBuffer>::delete_char_range(from..to)
delete_char_range(from, to) ==
    /\ ~panicked
    /\ from <= to
    /\ Called("delete", <<>>, from, to)
    /\ text' = String_delete_char_range(text, from, to)
    /\ parsed_val' = value_parser(policy, text')
    /\ outcome' = "none"
    /\ UNCHANGED <<ret, panicked>>

Next ==
    \/ \E s \in Candidates(policy), i \in Indices : insert_text(s, i)
    \/ \E from \in Ends, to \in Ends : delete_char_range(from, to)

Spec == Init /\ [][Next]_vars

\* set_val that drops the cache instead of storing the value
set_val_clearing(val) ==
    /\ ~panicked
    /\ op' = "set_val"
    /\ arg_val' = val
    /\ arg_text' = <<>>
    /\ arg_i' = 0
    /\ arg_j' = 0
    /\ prev_text' = text
    /\ prev_val' = parsed_val
    /\ text' = val_to_string(policy, val)
    /\ parsed_val' = None
    /\ outcome' = "none"
    /\ UNCHANGED <<policy, ret, panicked>>

\* ValText::set_val(val)
set_val(val) ==
    /\ ~panicked
    /\ op' = "set_val"
    /\ arg_val' = val
    /\ arg_text' = <<>>
    /\ arg_i' = 0
    /\ arg_j' = 0
    /\ prev_text' = text
    /\ prev_val' = parsed_val
    /\ text' = val_to_string(policy, val)
    /\ parsed_val' = Ok(val)
    /\ outcome' = "none"
    /\ UNCHANGED <<policy, ret, panicked>>

\* a host that also assigns values
NextSet ==
    \/ \E s \in Candidates(policy), i \in Indices : insert_text(s, i)
    \/ \E from \in Ends, to \in Ends : delete_char_range(from, to)
    \/ \E val \in SetVals(policy) : set_val(val)

SpecSet == Init /\ [][NextSet]_vars

---------------------------------------------------------------------------
(* Reference notions the properties are stated with *)

RECURSIVE Chars(_)
\* the characters of a string, each the sequence of its bytes
Chars(s) ==
    IF s = <<>> THEN <<>>
    ELSE LET n == IF s[1] = "C3" THEN 2 ELSE 1
         IN  <<SubSeq(s, 1, n)>> \o Chars(SubSeq(s, n + 1, Len(s)))

RECURSIVE Flatten(_)
\* the bytes of a sequence of characters
Flatten(cs) == IF cs = <<>> THEN <<>> ELSE Head(cs) \o Flatten(Tail(cs))

Min(a, b) == IF a <= b THEN a ELSE b

\* s with the whole of t put in front of its character number at (from 0),
\* at the end when s has no such character
Spliced(s, t, at) ==
    LET cs == Chars(s)
        k == Min(at, Len(cs))
    IN  Flatten(SubSeq(cs, 1, k)) \o t \o Flatten(SubSeq(cs, k + 1, Len(cs)))

\* s without its characters number from .. to - 1
Removed(s, from, to) ==
    LET cs == Chars(s)
    IN  Flatten(SubSeq(cs, 1, Min(from, Len(cs))))
        \o Flatten(SubSeq(cs, Min(to, Len(cs)) + 1, Len(cs)))

\* the last call was an insert_text whose validator returned this value
ValidatorReturned(b) ==
    /\ op = "insert"
    /\ ~input_validator_panics(policy, prev_text, arg_text, arg_i)
    /\ input_validator(policy, prev_text, arg_text, arg_i) = b

---------------------------------------------------------------------------
(* Properties *)

\* C1, as stated: for every policy, after any sequence of insert_text and
\* delete_char_range calls (at least one) on a fresh buffer, get_val() is the
\* policy's parser applied to as_str().
C1_CoherentAfterAnyCalls ==
    op # "none" => get_val = value_parser(policy, as_str)

\* C1, amended: get_val() is the policy's parser applied to as_str() after
\* every accepted insert_text and every delete_char_range, and from then on;
\* for color_hex from construction on.  Until then (inserts that were all
\* rejected) get_val() is None and the text is empty.
C1_CoherentOnceMutated ==
    /\ (op = "delete" \/ ValidatorReturned(TRUE)) =>
           get_val = value_parser(policy, as_str)
    /\ get_val # None => get_val = value_parser(policy, as_str)
    /\ get_val = None => as_str = <<>> /\ policy # "color_hex"

\* an accepted insert moved the cache from an error to the value of the text
C1_Witness ==
    /\ ValidatorReturned(TRUE)
    /\ prev_val.tag = "Err"
    /\ get_val.tag = "Ok"
    /\ text # prev_text

\* C2: if the validator returns false for (text, candidate, index), insert_text
\* returns 0 and leaves the text and the cached parse result as they were.
C2_RejectionIsAtomic ==
    ValidatorReturned(FALSE) =>
        /\ ret = 0
        /\ as_str = prev_text
        /\ get_val = prev_val

\* a candidate was rejected on a buffer that held a text and a parse
C2_Witness ==
    /\ ValidatorReturned(FALSE)
    /\ prev_text # <<>>
    /\ prev_val.tag = "Ok"
    /\ arg_text # <<>>

\* C3: if the validator accepts (text, candidate, index), insert_text makes the
\* text the old text with the whole candidate spliced in at character position
\* index (at the end when index is beyond it), makes the cache the parser of
\* the new text, and returns the number of characters of the candidate.
C3_AcceptedInsertIsWhole ==
    ValidatorReturned(TRUE) =>
        /\ as_str = Spliced(prev_text, arg_text, arg_i)
        /\ get_val = value_parser(policy, Spliced(prev_text, arg_text, arg_i))
        /\ ret = Len(Chars(arg_text))

\* a character was inserted after a two-byte character: character position 1
\* is byte position 2
C3_Witness ==
    /\ ValidatorReturned(TRUE)
    /\ prev_text = EAcute
    /\ arg_text = <<"1">>
    /\ arg_i = 1
    /\ as_str = EAcute \o <<"1">>
    /\ ret = 1

\* C4: delete_char_range removes exactly the characters of the range, whatever
\* the validator would say of the result, and makes the cache the parser of
\* the new text; deleting the '.' of "1.5" in a number buffer gives "15" and a
\* successful parse of 15.
C4_DeleteIsUnconditional ==
    /\ op = "delete" =>
           /\ as_str = Removed(prev_text, arg_i, arg_j)
           /\ get_val = value_parser(policy, Removed(prev_text, arg_i, arg_j))
    /\ (/\ op = "delete"
        /\ policy = "number"
        /\ prev_text = <<"1", ".", "5">>
        /\ arg_i = 1
        /\ arg_j = 2) =>
           /\ as_str = <<"1", "5">>
           /\ get_val = Ok(Finite(FALSE, 15, 0))

\* the '.' of "1.5" was deleted from a number buffer
C4_Witness ==
    /\ op = "delete"
    /\ policy = "number"
    /\ prev_text = <<"1", ".", "5">>
    /\ arg_i = 1
    /\ arg_j = 2
    /\ as_str = <<"1", "5">>
    /\ is_valid

\* C5: every insert_text call, whatever the policy, the text, the candidate
\* and the index (beyond the end of the text included), returns a count; none
\* panics.
C5_InsertNeverPanics ==
    op = "insert" => outcome \in {"accept", "reject"} /\ ~panicked

\* C6: in every state of a percentage buffer (float or unsigned-int), a
\* success in get_val() holds a value v with 0 <= v <= 100.
C6_PercentageInRange ==
    /\ (policy \in {"percentage_f64", "percentage_f32"} /\ is_valid) =>
           in_0_100(get_val.val)
    /\ (policy = "percentage_uint" /\ is_valid) =>
           (0 <= get_val.val[1] /\ get_val.val[1] <= 100)

RECURSIVE TypedUint(_, _)
\* the text of a fresh percentage_uint buffer after the first k characters of
\* d are typed one at a time at the end; <<"rejected">> once one is rejected
TypedUint(d, k) ==
    IF k = 0 THEN <<>>
    ELSE LET before == TypedUint(d, k - 1)
         IN  IF before # <<"rejected">>
                /\ percentage_uint_input_validator(before, <<d[k]>>, k - 1)
             THEN String_insert_text(before, <<d[k]>>, k - 1)
             ELSE <<"rejected">>

\* C7: for every n in 0..100, typing the decimal digits of n one at a time at
\* the end of a fresh percentage_uint buffer is accepted at every step, and
\* get_val() is then success(n).
C7_EveryPercentageIsEnterable ==
    policy = "percentage_uint" =>
        /\ op = "none" =>
               \A n \in 0..100 :
                   /\ TypedUint(to_string(n), Len(to_string(n))) = to_string(n)
                   /\ percentage_uint_value_parser(to_string(n)) = Ok(<<n>>)
        /\ (op = "insert" /\ Len(arg_text) = 1 /\ arg_i = Len(prev_text)) =>
               \A n \in 0..100 :
                   LET d == to_string(n)
                       k == arg_i + 1
                   IN  (/\ k <= Len(d)
                        /\ prev_text = SubSeq(d, 1, k - 1)
                        /\ arg_text = <<d[k]>>) =>
                           /\ outcome = "accept"
                           /\ as_str = SubSeq(d, 1, k)
                           /\ k = Len(d) => get_val = Ok(<<n>>)

\* "100" was completed by typing its last digit
C7_Witness ==
    /\ policy = "percentage_uint"
    /\ op = "insert"
    /\ prev_text = <<"1", "0">>
    /\ arg_text = <<"0">>
    /\ arg_i = 2
    /\ outcome = "accept"
    /\ get_val = Ok(<<100>>)

\* the text can still become (or is) one that parses to a value in 0..100
CanReachPercentage(t) ==
    \E more \in {<<>>} \cup Singles(AsciiDigits) :
        percentage_uint_value_parser(t \o more).tag = "Ok"

\* C8: after every insert a percentage_uint buffer accepts, the text is a
\* prefix of (or is) a string that parses to a success in 0..100.
C8_AcceptedTextCanBeCompleted ==
    (policy = "percentage_uint" /\ ValidatorReturned(TRUE)) =>
        CanReachPercentage(as_str)

\* C9: when the text of a percentage_uint buffer has exactly two characters,
\* an insert is accepted only if the candidate is "0" and the text starts with
\* "10"; so "1"@0, "0"@1, "0"@2 give "100" with value 100, a further "0"@3 is
\* rejected, and "9"@2 on "99" is rejected.
C9_TwoCharacterBoundary ==
    policy = "percentage_uint" =>
        /\ (ValidatorReturned(TRUE) /\ Len(Chars(prev_text)) = 2) =>
               (arg_text = <<"0">> /\ StartsWith(prev_text, <<"1", "0">>))
        /\ (/\ op = "insert"
            /\ prev_text = <<"1", "0">>
            /\ arg_text = <<"0">>
            /\ arg_i = 2) =>
               (as_str = <<"1", "0", "0">> /\ get_val = Ok(<<100>>))
        /\ (/\ op = "insert"
            /\ prev_text = <<"1", "0", "0">>
            /\ arg_text = <<"0">>
            /\ arg_i = 3) =>
               (outcome = "reject" /\ as_str = prev_text)
        /\ (/\ op = "insert"
            /\ prev_text = <<"9", "9">>
            /\ arg_text = <<"9">>
            /\ arg_i = 2) =>
               (outcome = "reject" /\ as_str = prev_text)

\* C10: the text of a number_int buffer holds only ASCII digits, except that
\* its first character may be one '+' or '-'.
C10_IntegerTextShape ==
    policy = "number_int" =>
        \A k \in 1..Len(as_str) :
            \/ is_ascii_digit(as_str[k])
            \/ (k = 1 /\ as_str[k] \in {"+", "-"})


\* C11: for number, number_int and number_uint, an insert at an index >= 1 of
\* a candidate holding a character that is neither an ASCII digit nor (for
\* number, while the text has no '.') a '.', is rejected and leaves the text
\* as it was; for number_int from the empty text "-"@0 gives "-", "3"@1 gives
\* "-3" and "-"@1 is then rejected with the text still "-3".
C11_SignOnlyAtIndexZero ==
    /\ (/\ policy \in {"number", "number_int", "number_uint"}
        /\ op = "insert"
        /\ arg_i >= 1
        /\ \E k \in 1..Len(arg_text) :
               /\ ~is_ascii_digit(arg_text[k])
               /\ ~(/\ policy = "number"
                    /\ arg_text[k] = "."
                    /\ ~Contains(prev_text, "."))) =>
           (outcome = "reject" /\ ret = 0 /\ as_str = prev_text)
    /\ (/\ policy = "number_int"
        /\ op = "insert"
        /\ prev_text = <<>>
        /\ arg_text = <<"-">>
        /\ arg_i = 0) =>
           as_str = <<"-">>
    /\ (/\ policy = "number_int"
        /\ op = "insert"
        /\ prev_text = <<"-">>
        /\ arg_text = <<"3">>
        /\ arg_i = 1) =>
           as_str = <<"-", "3">>
    /\ (/\ policy = "number_int"
        /\ op = "insert"
        /\ prev_text = <<"-", "3">>
        /\ arg_text = <<"-">>
        /\ arg_i = 1) =>
           (outcome = "reject" /\ as_str = <<"-", "3">>)

\* a second '-' was refused behind the sign of "-3"
C11_Witness ==
    /\ policy = "number_int"
    /\ op = "insert"
    /\ prev_text = <<"-", "3">>
    /\ arg_text = <<"-">>
    /\ arg_i = 1
    /\ outcome = "reject"
    /\ as_str = <<"-", "3">>

\* C12: a fresh color_hex buffer has get_val() = Err(MissingHash), the parse
\* of the empty text, and is not valid; "#"@0 is accepted and the buffer is
\* still not valid; "FF0000"@1 then gives the text "#FF0000", a valid buffer
\* and the colour (255, 0, 0, 255).
C12_HexColorEntry ==
    policy = "color_hex" =>
        /\ op = "none" =>
               /\ get_val = Err(<<"MissingHash">>)
               /\ get_val = value_parser(policy, <<>>)
               /\ ~is_valid
        /\ (/\ op = "insert"
            /\ prev_text = <<>>
            /\ arg_text = <<"#">>
            /\ arg_i = 0) =>
               (outcome = "accept" /\ as_str = <<"#">> /\ ~is_valid)
        /\ (/\ op = "insert"
            /\ prev_text = <<"#">>
            /\ arg_text = <<"F", "F", "0", "0", "0", "0">>
            /\ arg_i = 1) =>
               /\ outcome = "accept"
               /\ as_str = <<"#", "F", "F", "0", "0", "0", "0">>
               /\ is_valid
               /\ get_val = Ok(<<255, 0, 0, 255>>)

\* the six digits were typed behind the '#' and the buffer turned valid
C12_Witness ==
    /\ policy = "color_hex"
    /\ op = "insert"
    /\ prev_text = <<"#">>
    /\ prev_val.tag = "Err"
    /\ as_str = <<"#", "F", "F", "0", "0", "0", "0">>
    /\ is_valid

\* the call just made changed the buffer by design: an insert the validator
\* accepted, a delete or a set_val
Mutation ==
    \/ op \in {"delete", "set_val"}
    \/ op = "insert" /\ outcome = "accept"

\* C13: for every policy but color_hex, get_val() is None at construction and
\* stays None exactly until the first accepted insert, delete or set_val;
\* once present it is never None again; and in every state is_valid() is true
\* if and only if get_val() holds an Ok.
C13_CachePresence ==
    /\ (policy # "color_hex" => get_val = None)
    /\ [][policy # "color_hex" =>
              /\ (get_val' = None) <=> (get_val = None /\ ~Mutation')
              /\ get_val # None => get_val' # None]_vars
    /\ [](is_valid <=> (get_val # None /\ get_val = Ok(get_val.val)))

\* set_val on a fresh buffer made the cache present
C13_Witness ==
    /\ op = "set_val"
    /\ prev_val = None
    /\ get_val # None
    /\ is_valid

\* C14: every character of the text of a with_parser_fixed_charset buffer is
\* in charset, and an insert of a candidate with a character outside charset
\* is rejected as a whole.
C14_FixedCharset ==
    policy = "with_parser_fixed_charset" =>
        /\ \A k \in 1..Len(as_str) : as_str[k] \in charset
        /\ (/\ op = "insert"
            /\ \E k \in 1..Len(arg_text) : arg_text[k] \notin charset) =>
               (outcome = "reject" /\ ret = 0 /\ as_str = prev_text)

\* a candidate with one character inside and one outside charset was refused
C14_Witness ==
    /\ policy = "with_parser_fixed_charset"
    /\ op = "insert"
    /\ prev_text = <<"1">>
    /\ arg_text = <<"1", "2">>
    /\ outcome = "reject"
    /\ as_str = <<"1">>

PercentageFloatPolicies == {"percentage_f64", "percentage_f32"}

\* C15: on a float percentage buffer whose text holds a '.', a candidate of
\* ASCII digits inserted at the end of the text is accepted.
C15_FractionDigitsAppend ==
    (/\ policy \in PercentageFloatPolicies
     /\ op = "insert"
     /\ Contains(prev_text, ".")
     /\ arg_text # <<>>
     /\ all_ascii_digit(arg_text)
     /\ arg_i = Len(Chars(prev_text))) =>
        (outcome = "accept" /\ as_str = prev_text \o arg_text)

\* the text in front of the first '.', the whole text if there is none
BeforePoint(s) ==
    IF Contains(s, ".")
    THEN SubSeq(s, 1, (CHOOSE k \in 1..Len(s) :
                           s[k] = "." /\ \A j \in 1..(k - 1) : s[j] # ".") - 1)
    ELSE s

\* C16: the text of a float percentage buffer has at most 3 characters in
\* front of its decimal point (in all, if it has no point).
C16_IntegerPartCap ==
    policy \in PercentageFloatPolicies => Len(Chars(BeforePoint(as_str))) <= 3

\* the number of '.' in s
DotCount(s) == Cardinality({k \in 1..Len(s) : s[k] = "."})

\* C17: the text of a number buffer holds at most one '.', and a candidate
\* with a '.' is accepted only if it has a single '.' and the text has none.
C17_SingleDecimalPoint ==
    policy = "number" =>
        /\ DotCount(as_str) <= 1
        /\ (ValidatorReturned(TRUE) /\ Contains(arg_text, ".")) =>
               (DotCount(arg_text) = 1 /\ ~Contains(prev_text, "."))

\* C18: after set_val(v) the text is the string form of v, the cache is
\* Ok(v) and the cache is the policy's parser applied to the text.
C18_SetValCoherent ==
    op = "set_val" =>
        /\ as_str = val_to_string(policy, arg_val)
        /\ get_val = Ok(arg_val)
        /\ get_val = value_parser(policy, as_str)

\* C19: two states of one buffer with the same text have the same get_val()
\* and is_valid(): the state at hand agrees with the fresh buffer when its
\* text is empty, and with the state before the last call when the text is
\* the same.
C19_SameTextSameCache ==
    /\ as_str = <<>> =>
           /\ get_val = initial_parsed_val(policy)
           /\ is_valid = (initial_parsed_val(policy).tag = "Ok")
    /\ as_str = prev_text => get_val = prev_val

\* C19, amended: two states with the same text that both hold a parse result
\* (an accepted insert or a delete has happened) have the same get_val() and
\* is_valid(), the parse of that text.  A buffer emptied again holds the
\* parse of the empty text, which only for color_hex is what the fresh
\* buffer holds: elsewhere the fresh buffer holds None.
C19_SameTextSameParse ==
    /\ get_val # None => get_val = value_parser(policy, as_str)
    /\ (as_str = prev_text /\ prev_val # None) => get_val = prev_val
    /\ (policy = "color_hex" /\ as_str = <<>>) =>
           get_val = initial_parsed_val(policy)
    /\ (policy # "color_hex" /\ as_str = <<>> /\ get_val # None) =>
           /\ get_val # initial_parsed_val(policy)
           /\ get_val = value_parser(policy, <<>>)

\* an option_parse buffer emptied again is valid, the fresh one was not
C19_Witness ==
    /\ policy = "option_parse"
    /\ op = "delete"
    /\ prev_text # <<>>
    /\ as_str = <<>>
    /\ is_valid
    /\ initial_parsed_val(policy) = None

\* C20: whenever insert_text returns 0 the text and the cached parse result
\* are what they were before the call.
C20_ZeroReturnMeansUnchanged ==
    (op = "insert" /\ outcome \in {"accept", "reject"} /\ ret = 0) =>
        (as_str = prev_text /\ get_val = prev_val)

=============================================================================
